---- MODULE Spec2Model ----
(***************************************************************************)
(* scripts/significant_bases_by_randomisation.py: main().                  *)
(*                                                                         *)
(* main() parses the command line, optionally sets up a multiprocessing    *)
(* pool, selects the GTF iterator, builds one signal getter, calls         *)
(* iCLIP.get_crosslink_fdr_by_randomisation and post-processes the frame   *)
(* it returns: threshold filter, reset_index/rename, sort by (FDR, depth), *)
(* drop_duplicates on (contig, start, strand), sort by position, cast of   *)
(* start to int, end = start + 1, -log10(FDR), to_csv.                     *)
(*                                                                         *)
(* Number representations                                                  *)
(*   FDR and threshold : thousandths (0.05 is 50).                         *)
(*   position / start before astype("int") : tenths of a base, so that the *)
(*     cast is a truncation (100.0 is 1000); after the cast: whole bases.  *)
(*   -log10(FDR) : thousandths (1.301 is 1301).                            *)
(***************************************************************************)
EXTENDS Integers, Sequences, FiniteSets, TLC

VARIABLES pc, options, pool, iterator, bam, getters_built,
          fdr_call, returned, results, out, log, exit_status

vars == <<pc, options, pool, iterator, bam, getters_built,
          fdr_call, returned, results, out, log, exit_status>>

None == "None"

\* ---------------------------------------------------------------- bounds
\* longest frame returned by the FDR computation under Spec
MaxRecordsCLI == 1
\* longest frame returned by the FDR computation under SpecRecords
MaxRecords == 2

\* ------------------------------------------------------- parser defaults
DefaultSpread == 15
DefaultRands == 100
DefaultThreshold == 50
FeatureChoices == {"transcript", "gene"}

\* ---------------------------------------------------------- input values
FileArgs(name) == {None, name}
SpreadArgs == {DefaultSpread, -1}
RandsArgs == {DefaultRands, 0}
ThresholdArgs == {DefaultThreshold, 10}
FeatureArgs == {"gene", "transcript", "exon"}
\* -p: <<>> when absent, <<n>> when given
ProcArgs == {<<>>, <<0>>, <<2>>}

Argvs ==
    [bam : FileArgs("clip.bam"), plus_wig : FileArgs("plus.bw"),
     minus_wig : FileArgs("minus.bw"), bedfile : FileArgs("clip.bed"),
     spread : SpreadArgs, rands : RandsArgs, threshold : {DefaultThreshold},
     feature : FeatureArgs, proc : ProcArgs, centre : {FALSE}]

\* a command line with which main() reaches the FDR computation
ArgvsRecords ==
    [bam : {"clip.bam"}, plus_wig : {None}, minus_wig : {None},
     bedfile : {None}, spread : {DefaultSpread}, rands : {DefaultRands},
     threshold : ThresholdArgs, feature : {"gene"}, proc : {<<>>},
     centre : {FALSE}]

\* values of the frame the FDR computation returns
Strands == {"+", "-"}
FdrValues == {10, 50, 100}
Depths == {5, 9}
Indexes == {<<"chr1", 1000>>, <<"chr1", 1010>>, <<"chr10", 1000>>, <<"chr2", 1000>>}
FrameRows ==
    {r \in [index : Indexes, fdr : FdrValues, depth : Depths, strand : Strands] :
        r.index[1] = "chr1" \/ r.strand = "+"}

SeqsUpTo(S, n) == UNION {[1..k -> S] : k \in 0..n}

\* ------------------------------------------------------- python helpers
\* truth value of an option string (None and "" are false)
Truthy(x) == x # None /\ x # ""

\* code points of the strings that occur as contig or strand
CodePoints(s) ==
    CASE s = "+" -> <<43>>
      [] s = "-" -> <<45>>
      [] s = "chr1" -> <<99, 104, 114, 49>>
      [] s = "chr10" -> <<99, 104, 114, 49, 48>>
      [] s = "chr2" -> <<99, 104, 114, 50>>

\* str.__lt__: lexicographic on code points, a proper prefix is smaller
StrLess(a, b) ==
    LET x == CodePoints(a)
        y == CodePoints(b)
    IN  \/ \E i \in 1..Len(x) :
              /\ i <= Len(y)
              /\ x[i] < y[i]
              /\ \A j \in 1..(i - 1) : x[j] = y[j]
        \/ /\ Len(x) < Len(y)
           /\ \A j \in 1..Len(x) : x[j] = y[j]

\* -numpy.log10(f) for f in thousandths, result in thousandths
NegLog10(f) ==
    CASE f = 1 -> 3000
      [] f = 10 -> 2000
      [] f = 50 -> 1301
      [] f = 100 -> 1000
      [] f = 1000 -> 0

\* Series.astype("int") of a float: truncation
AsTypeInt(x) == x \div 10

\* ------------------------------------------------------- pandas helpers
Perms(n) == {p \in [1..n -> 1..n] : \A i, j \in 1..n : p[i] = p[j] => i = j}

\* the rows of s at the positions in I, in their order in s
Take(s, I) ==
    LET f[k \in 0..Len(s)] ==
            IF k = 0 THEN <<>>
            ELSE IF k \in I THEN Append(f[k - 1], s[k]) ELSE f[k - 1]
    IN  f[Len(s)]

\* DataFrame.sort_values on several columns: stable; before holds the pairs
\* <<i, j>> of positions whose rows compare s[i] < s[j] on the sort columns
SortValues(s, before) ==
    LET n == Len(s)
        p == CHOOSE q \in Perms(n) :
                \A i, j \in 1..n : i < j =>
                    /\ <<q[j], q[i]>> \notin before
                    /\ (<<q[i], q[j]>> \notin before => q[i] < q[j])
    IN  [i \in 1..n |-> s[p[i]]]

FilterByThreshold_strict(frame, threshold) ==
    Take(frame, {i \in 1..Len(frame) : frame[i].fdr < threshold})

\* results[results.fdr <= options.threshold]
FilterByThreshold(frame, threshold) ==
    Take(frame, {i \in 1..Len(frame) : frame[i].fdr <= threshold})

\* reset_index() and columns = [contig, start, FDR, depth, strand]
ResetIndex(frame) ==
    [i \in 1..Len(frame) |->
        [contig |-> frame[i].index[1], start |-> frame[i].index[2],
         FDR |-> frame[i].fdr, depth |-> frame[i].depth,
         strand |-> frame[i].strand]]

FdrDepthLess_depth_ascending(a, b) ==
    \/ a.FDR < b.FDR
    \/ a.FDR = b.FDR /\ a.depth < b.depth

\* by=["FDR", "depth"], ascending=[True, False]
FdrDepthLess(a, b) ==
    \/ a.FDR < b.FDR
    \/ a.FDR = b.FDR /\ a.depth > b.depth

SortByFdrDepth_skipped(s) == s

SortByFdrDepth(s) ==
    SortValues(s, {ij \in (1..Len(s)) \X (1..Len(s)) :
                      FdrDepthLess(s[ij[1]], s[ij[2]])})

SameBase(a, b) ==
    a.contig = b.contig /\ a.start = b.start /\ a.strand = b.strand

\* drop_duplicates(["contig", "start", "strand"]), keep="first"
DropDuplicates(s) ==
    Take(s, {i \in 1..Len(s) : \A j \in 1..(i - 1) : ~SameBase(s[j], s[i])})

\* by ["contig", "start", "strand"], ascending
PositionLess(a, b) ==
    \/ StrLess(a.contig, b.contig)
    \/ a.contig = b.contig /\ a.start < b.start
    \/ a.contig = b.contig /\ a.start = b.start /\ StrLess(a.strand, b.strand)

SortByPosition_skipped(s) == s

SortByPosition(s) ==
    SortValues(s, {ij \in (1..Len(s)) \X (1..Len(s)) :
                      PositionLess(s[ij[1]], s[ij[2]])})

FormatRow_end_is_start(r) ==
    LET start == AsTypeInt(r.start)
    IN  <<r.contig, start, start, NegLog10(r.FDR), r.depth, r.strand>>

\* start cast, end column, column selection and -log10(FDR); a row is
\* <<contig, start, end, FDR, depth, strand>>
FormatRow(r) ==
    LET start == AsTypeInt(r.start)
    IN  <<r.contig, start, start + 1, NegLog10(r.FDR), r.depth, r.strand>>

FormatRows(s) == [i \in 1..Len(s) |-> FormatRow(s[i])]

\* ------------------------------------------------------------ the core
FdrArgs_defaults(o, it, getter, p) ==
    [iterator |-> it, getter |-> getter, randomisations |-> DefaultRands,
     spread |-> DefaultSpread, pool |-> p]

\* arguments main() hands to the FDR computation
FdrArgs(o, it, getter, p) ==
    [iterator |-> it, getter |-> getter, randomisations |-> o.rands,
     spread |-> o.spread, pool |-> p]

\* iCLIP.get_crosslink_fdr_by_randomisation: the possible outcomes of a call
get_crosslink_fdr_by_randomisation(args, maxlen) ==
    IF args.randomisations <= 0 \/ args.spread < 0
    THEN {[error |-> TRUE, frame |-> <<>>]}
    ELSE {[error |-> FALSE, frame |-> f] : f \in SeqsUpTo(FrameRows, maxlen)}

NoGetter == [source |-> None, file |-> None, minus_wig |-> None, centre |-> FALSE]

GetterFor_bed_first(o) ==
    IF Truthy(o.bam)
    THEN [source |-> "bam", file |-> o.bam, minus_wig |-> None, centre |-> o.centre]
    ELSE IF Truthy(o.bedfile)
    THEN [source |-> "bedfile", file |-> o.bedfile, minus_wig |-> None,
          centre |-> FALSE]
    ELSE IF Truthy(o.plus_wig)
    THEN [source |-> "plus_wig", file |-> o.plus_wig, minus_wig |-> o.minus_wig,
          centre |-> FALSE]
    ELSE NoGetter

\* iCLIP.make_getter is called with these arguments
GetterFor(o) ==
    IF Truthy(o.bam)
    THEN [source |-> "bam", file |-> o.bam, minus_wig |-> None, centre |-> o.centre]
    ELSE IF Truthy(o.plus_wig)
    THEN [source |-> "plus_wig", file |-> o.plus_wig, minus_wig |-> o.minus_wig,
          centre |-> FALSE]
    ELSE IF Truthy(o.bedfile)
    THEN [source |-> "bedfile", file |-> o.bedfile, minus_wig |-> None,
          centre |-> FALSE]
    ELSE NoGetter

IteratorFor_swapped(feature) ==
    IF feature = "gene" THEN "transcript_iterator"
    ELSE IF feature = "transcript" THEN "flat_gene_iterator"
    ELSE None

IteratorFor(feature) ==
    IF feature = "gene" THEN "flat_gene_iterator"
    ELSE IF feature = "transcript" THEN "transcript_iterator"
    ELSE None

\* ------------------------------------------------------------- actions
\* exit_status is the status of the process once pc = "exit"
Fatal(kind, status) ==
    /\ pc' = "exit"
    /\ log' = kind
    /\ exit_status' = status

InitWith(A) ==
    /\ pc = "start"
    /\ options \in A
    /\ pool = "unset"
    /\ iterator = None
    /\ bam = NoGetter
    /\ getters_built = 0
    /\ fdr_call = <<>>
    /\ returned = <<>>
    /\ results = <<>>
    /\ out = <<>>
    /\ log = "none"
    /\ exit_status = 0

Init == InitWith(Argvs)

InitRecords == InitWith(ArgvsRecords)

\* E.Start(parser, argv): the choice option rejects an unknown feature
EStart ==
    /\ pc = "start"
    /\ IF options.feature \in FeatureChoices
       THEN /\ pc' = "pool"
            /\ UNCHANGED <<log, exit_status>>
       ELSE Fatal("parser_error", 2)
    /\ UNCHANGED <<options, pool, iterator, bam, getters_built, fdr_call,
                   returned, results, out>>

\* the pool set-up; importable: whether "import multiprocessing" succeeds
SetupPool ==
    /\ pc = "pool"
    /\ IF options.proc # <<>>
       THEN \E importable \in BOOLEAN :
              IF ~importable
              THEN /\ pool' = None
                   /\ pc' = "iterator"
                   /\ UNCHANGED <<log, exit_status>>
              ELSE IF options.proc[1] < 1
              THEN /\ Fatal("ValueError_processes", 1)
                   /\ UNCHANGED pool
              ELSE /\ pool' = "Pool"
                   /\ pc' = "iterator"
                   /\ UNCHANGED <<log, exit_status>>
       ELSE /\ pool' = None
            /\ pc' = "iterator"
            /\ UNCHANGED <<log, exit_status>>
    /\ UNCHANGED <<options, iterator, bam, getters_built, fdr_call,
                   returned, results, out>>

SelectIterator ==
    /\ pc = "iterator"
    /\ IF IteratorFor(options.feature) # None
       THEN /\ iterator' = IteratorFor(options.feature)
            /\ pc' = "getter"
            /\ UNCHANGED <<log, exit_status>>
       ELSE /\ Fatal("ValueError_feature", 1)
            /\ UNCHANGED iterator
    /\ UNCHANGED <<options, pool, bam, getters_built, fdr_call,
                   returned, results, out>>

MakeGetter_no_exit ==
    /\ pc = "getter"
    /\ bam' = GetterFor(options)
    /\ getters_built' = IF GetterFor(options) # NoGetter
                        THEN getters_built + 1 ELSE getters_built
    /\ pc' = "fdr"
    /\ UNCHANGED <<options, pool, iterator, fdr_call, returned, results,
                   out, log, exit_status>>

MakeGetter ==
    /\ pc = "getter"
    /\ IF GetterFor(options) # NoGetter
       THEN /\ bam' = GetterFor(options)
            /\ getters_built' = getters_built + 1
            /\ pc' = "fdr"
            /\ UNCHANGED <<log, exit_status>>
       ELSE /\ Fatal("no_source", 1)
            /\ UNCHANGED <<bam, getters_built>>
    /\ UNCHANGED <<options, pool, iterator, fdr_call, returned,
                   results, out>>

CallFDR(maxlen) ==
    /\ pc = "fdr"
    /\ fdr_call' = Append(fdr_call, FdrArgs(options, iterator, bam, pool))
    /\ \E res \in get_crosslink_fdr_by_randomisation(
                    FdrArgs(options, iterator, bam, pool), maxlen) :
          IF res.error
          THEN /\ Fatal("fdr_configuration", 1)
               /\ UNCHANGED <<returned, results>>
          ELSE /\ returned' = res.frame
               /\ results' = res.frame
               /\ pc' = "filter"
               /\ UNCHANGED <<log, exit_status>>
    /\ UNCHANGED <<options, pool, iterator, bam, getters_built, out>>

Filter ==
    /\ pc = "filter"
    /\ results' = ResetIndex(FilterByThreshold(results, options.threshold))
    /\ pc' = "dedup"
    /\ UNCHANGED <<options, pool, iterator, bam, getters_built,
                   fdr_call, returned, out, log, exit_status>>

Deduplicate ==
    /\ pc = "dedup"
    /\ results' = SortByPosition(DropDuplicates(SortByFdrDepth(results)))
    /\ pc' = "format"
    /\ UNCHANGED <<options, pool, iterator, bam, getters_built,
                   fdr_call, returned, out, log, exit_status>>

Format ==
    /\ pc = "format"
    /\ results' = FormatRows(results)
    /\ pc' = "write"
    /\ UNCHANGED <<options, pool, iterator, bam, getters_built,
                   fdr_call, returned, out, log, exit_status>>

\* to_csv and E.Stop
Write ==
    /\ pc = "write"
    /\ out' = results
    /\ pc' = "exit"
    /\ exit_status' = 0
    /\ UNCHANGED <<options, pool, iterator, bam, getters_built,
                   fdr_call, returned, results, log>>

Next ==
    \/ EStart
    \/ SetupPool
    \/ SelectIterator
    \/ MakeGetter
    \/ CallFDR(MaxRecordsCLI)
    \/ Filter
    \/ Deduplicate
    \/ Format
    \/ Write

NextRecords ==
    \/ EStart
    \/ SetupPool
    \/ SelectIterator
    \/ MakeGetter
    \/ CallFDR(MaxRecords)
    \/ Filter
    \/ Deduplicate
    \/ Format
    \/ Write

Spec == Init /\ [][Next]_vars

SpecRecords == InitRecords /\ [][NextRecords]_vars

TypeOK ==
    /\ pc \in {"start", "pool", "iterator", "getter", "fdr", "filter",
               "dedup", "format", "write", "exit"}
    /\ options \in Argvs \cup ArgvsRecords
    /\ exit_status \in {0, 1, 2}
    /\ getters_built \in 0..1

\* ----------------------------------------------------------- properties
\* main() wrote its rows and stopped normally
Emitted == pc = "exit" /\ exit_status = 0 /\ log = "none"

\* the (contig, start, strand) of a returned record and of a written row
KeyOf(r) == <<r.index[1], r.index[2], r.strand>>
RowKey(row) == <<row[1], row[2] * 10, row[6]>>

\* the returned records that pass the threshold
Passing == {i \in 1..Len(returned) : returned[i].fdr <= options.threshold}
PassingAt(i) == {j \in Passing : KeyOf(returned[j]) = KeyOf(returned[i])}

\* C1: for every key with a passing record, the row written for it carries
\* the lowest FDR among the passing records of the key and, among those of
\* that FDR, the highest depth.
C1_LowestFdrHighestDepth ==
    Emitted =>
        \A i \in Passing : \A k \in 1..Len(out) :
            RowKey(out[k]) = KeyOf(returned[i]) =>
                LET best == CHOOSE j \in PassingAt(i) :
                                \A l \in PassingAt(i) :
                                    \/ returned[j].fdr < returned[l].fdr
                                    \/ /\ returned[j].fdr = returned[l].fdr
                                       /\ returned[j].depth >= returned[l].depth
                IN  /\ out[k][4] = NegLog10(returned[best].fdr)
                    /\ out[k][5] = returned[best].depth

C1_Witness ==
    /\ Emitted
    /\ Len(returned) = 2
    /\ KeyOf(returned[1]) = <<"chr1", 1000, "+">>
    /\ KeyOf(returned[2]) = <<"chr1", 1000, "+">>
    /\ returned[1].fdr = 10 /\ returned[1].depth = 5
    /\ returned[2].fdr = 10 /\ returned[2].depth = 9
    /\ out = <<(<<"chr1", 100, 101, 2000, 9, "+">>)>>

\* C2: no written row has an FDR above the threshold, every row belongs to
\* a key with a passing record, and every such key has exactly one row.
C2_OneRowPerPassingKey ==
    Emitted =>
        /\ \A k \in 1..Len(out) :
              /\ \E i \in Passing :
                    /\ RowKey(out[k]) = KeyOf(returned[i])
                    /\ out[k][4] = NegLog10(returned[i].fdr)
              /\ ~\E f \in FdrValues :
                    f > options.threshold /\ out[k][4] = NegLog10(f)
        /\ \A i \in Passing :
              Cardinality({k \in 1..Len(out) :
                              RowKey(out[k]) = KeyOf(returned[i])}) = 1

C2_Witness ==
    /\ Emitted
    /\ Len(returned) = 2
    /\ returned[1].fdr > options.threshold
    /\ returned[2].fdr = options.threshold
    /\ KeyOf(returned[1]) = KeyOf(returned[2])
    /\ Len(out) = 1

\* C3: every written row is <<contig, start, end, -log10(FDR), depth,
\* strand>> of one passing record, with end = start + 1 and contig, start,
\* depth and strand unchanged.
C3_SingleBaseRow ==
    Emitted =>
        \A k \in 1..Len(out) :
            /\ Len(out[k]) = 6
            /\ out[k][3] = out[k][2] + 1
            /\ \E i \in Passing :
                  /\ out[k][1] = returned[i].index[1]
                  /\ out[k][2] * 10 = returned[i].index[2]
                  /\ out[k][4] = NegLog10(returned[i].fdr)
                  /\ out[k][5] = returned[i].depth
                  /\ out[k][6] = returned[i].strand

C3_Witness ==
    /\ Emitted
    /\ Len(returned) = 1
    /\ returned[1] = [index |-> <<"chr10", 1000>>, fdr |-> 50, depth |-> 5,
                      strand |-> "+"]
    /\ out = <<(<<"chr10", 100, 101, 1301, 5, "+">>)>>

\* C4: with no BAM file, plus-strand BigWig or BED file the FDR computation
\* is never invoked, no row is written, the run ends with a non-zero status,
\* and when it gets as far as the source selection it ends with the error
\* message and status 1.
NoSource(o) == o.bam = None /\ o.plus_wig = None /\ o.bedfile = None

C4_NoSourceIsFatal ==
    NoSource(options) =>
        /\ fdr_call = <<>>
        /\ out = <<>>
        /\ pc \notin {"fdr", "filter", "dedup", "format", "write"}
        /\ pc = "exit" =>
              /\ exit_status # 0
              /\ log \notin {"parser_error", "ValueError_processes"} =>
                    log = "no_source" /\ exit_status = 1

C4_Witness ==
    /\ pc = "exit"
    /\ NoSource(options)
    /\ options.minus_wig # None
    /\ log = "no_source"
    /\ exit_status = 1

C6_SequentialFallback ==
    pc \notin {"start", "pool"} /\ log # "parser_error" =>
        /\ log # "ValueError_processes"
        /\ options.proc = <<>> => pool = None
        /\ pool \in {None, "Pool"}
        /\ fdr_call # <<>> => fdr_call[1].pool = pool

\* C7: an unknown feature ends the run before anything is set up; for gene
\* the flat-gene iterator and for transcript the transcript iterator is
\* handed to the FDR computation.
C7_FeatureSelection ==
    /\ options.feature \notin {"gene", "transcript"} =>
          /\ pool = "unset"
          /\ iterator = None
          /\ getters_built = 0
          /\ bam = NoGetter
          /\ fdr_call = <<>>
          /\ out = <<>>
          /\ pc \in {"start", "exit"}
          /\ pc = "exit" => exit_status # 0
    /\ fdr_call # <<>> =>
          /\ options.feature = "gene" =>
                fdr_call[1].iterator = "flat_gene_iterator"
          /\ options.feature = "transcript" =>
                fdr_call[1].iterator = "transcript_iterator"

C7_Witness ==
    /\ pc = "exit"
    /\ options.feature = "exon"
    /\ options.bam # None
    /\ exit_status # 0
    /\ fdr_call = <<>>

\* C8: consecutive written rows are in strictly ascending order of
\* (contig, start, strand).
RowLess(a, b) ==
    \/ StrLess(a[1], b[1])
    \/ a[1] = b[1] /\ a[2] < b[2]
    \/ a[1] = b[1] /\ a[2] = b[2] /\ StrLess(a[6], b[6])

C8_RowsAscending ==
    Emitted => \A k \in 1..(Len(out) - 1) : RowLess(out[k], out[k + 1])

C8_Witness ==
    /\ Emitted
    /\ Len(returned) = 2
    /\ returned[1].index = <<"chr2", 1000>>
    /\ returned[2].index = <<"chr10", 1000>>
    /\ returned[1].fdr < returned[2].fdr
    /\ Len(out) = 2
    /\ out[1][1] = "chr10"

\* C9: the written rows are the same for every arrival order of the
\* returned records.
Emit(frame, threshold) ==
    FormatRows(SortByPosition(DropDuplicates(SortByFdrDepth(
        ResetIndex(FilterByThreshold(frame, threshold))))))

C9_ArrivalOrderIrrelevant ==
    Emitted =>
        \A p \in Perms(Len(returned)) :
            Emit([i \in 1..Len(returned) |-> returned[p[i]]],
                 options.threshold) = out

C9_Witness ==
    /\ Emitted
    /\ Len(returned) = 2
    /\ KeyOf(returned[1]) = KeyOf(returned[2])
    /\ returned[1].fdr = 50
    /\ returned[2].fdr = 10
    /\ Len(out) = 1
    /\ out[1][4] = 2000

\* C10: at most one getter is built, from the BAM file if given, else from
\* the plus-strand BigWig (with the minus-strand BigWig), else from the BED
\* file; the minus-strand BigWig alone selects nothing.
C10_SourcePrecedence ==
    /\ getters_built <= 1
    /\ bam # NoGetter =>
          /\ getters_built = 1
          /\ options.bam # None =>
                /\ bam.source = "bam"
                /\ bam.file = options.bam
                /\ bam.minus_wig = None
          /\ options.bam = None /\ options.plus_wig # None =>
                /\ bam.source = "plus_wig"
                /\ bam.file = options.plus_wig
                /\ bam.minus_wig = options.minus_wig
          /\ bam.source = "bedfile" =>
                /\ options.bam = None
                /\ options.plus_wig = None
                /\ bam.file = options.bedfile
          /\ bam.minus_wig # None => options.plus_wig # None
    /\ pc \in {"fdr", "filter", "dedup", "format", "write"} =>
          bam # NoGetter
    /\ NoSource(options) => bam = NoGetter /\ getters_built = 0

C10_Witness ==
    /\ pc = "fdr"
    /\ options.bam = None
    /\ options.plus_wig # None
    /\ options.minus_wig # None
    /\ options.bedfile # None
    /\ bam.source = "plus_wig"
    /\ bam.minus_wig = options.minus_wig
====
